---- MODULE Spec2Model ----
(***************************************************************************)
(* A model of the SnowFS object database (class Odb): the repository       *)
(* bootstrap (create, open), the content-addressed blob store              *)
(* (writeObject, readObject) and the files they keep under the metadata    *)
(* root.  Every asynchronous step of a promise chain is one action, so     *)
(* that concurrent calls interleave at exactly the points where the code   *)
(* yields to the event loop or to another process.                         *)
(***************************************************************************)
EXTENDS Integers, Sequences, FiniteSets, TLC

(***************************************************************************)
(* Bounds of the model.                                                    *)
(***************************************************************************)
MaxCalls == 2       \* writeObject calls, each with its own temp name
MaxFile == 3        \* source files are the first MaxFile + 1 byte strings
MaxVersion == 2     \* largest schema version found in a stored config
HashLen == 6        \* hex digits of a content hash

(***************************************************************************)
(* Program constants.                                                      *)
(***************************************************************************)
DefaultVersion == 2     \* defaultConfig.version
UnsupportedVersion == 1 \* the version Odb.open rejects
MinVersion == 2         \* the minimum supported version of the specification
BlockSize == 1          \* bytes per hash block
BlockThreshold == 2     \* smallest file size for which hash blocks are produced

Calls == 1..MaxCalls
Bytes == {0, 1}
Versions == 0..MaxVersion
Dsts == {"dst"}

\* the byte strings in order of length, then value: <<>>, <<0>>, <<1>>, <<0, 0>>, ...
RECURSIVE FileNo(_)
FileNo(n) ==
  IF n = 0 THEN <<>>
  ELSE Append(FileNo((n - 1) \div 2), (n - 1) % 2)

Contents == {FileNo(n) : n \in 0..MaxFile}

(***************************************************************************)
(* Files of a directory: a function from the names present to their        *)
(* contents.                                                               *)
(***************************************************************************)
Put(f, k, v) == [x \in (DOMAIN f) \cup {k} |-> IF x = k THEN v ELSE f[x]]
Del(f, k) == [x \in (DOMAIN f) \ {k} |-> f[x]]
Empty == [x \in {} |-> <<>>]

(***************************************************************************)
(* The content hasher.  The digest stands for sha256: a function of the    *)
(* bytes alone, without collisions on the files of the model.              *)
(***************************************************************************)
HexDigit == <<"0", "1", "2", "3", "4", "5", "6", "7",
              "8", "9", "a", "b", "c", "d", "e", "f">>

RECURSIVE Pow(_, _)
Pow(b, e) == IF e = 0 THEN 1 ELSE b * Pow(b, e - 1)

RECURSIVE ContentCode(_)
ContentCode(bytes) ==
  IF bytes = <<>> THEN 0
  ELSE ContentCode(SubSeq(bytes, 1, Len(bytes) - 1)) * 2
       + bytes[Len(bytes)] + 1

Digest(bytes) == (ContentCode(bytes) * 40503 + 43981) % Pow(16, HashLen)

RECURSIVE ToHex(_, _)
ToHex(n, len) ==
  IF len = 0 THEN <<>>
  ELSE Append(ToHex(n \div 16, len - 1), HexDigit[(n % 16) + 1])

FileHash(bytes) == ToHex(Digest(bytes), HashLen)

HashBlocksOf(bytes) ==
  IF Len(bytes) < BlockThreshold THEN <<>>
  ELSE << [i \in 1..(Len(bytes) \div BlockSize) |->
            [start |-> (i - 1) * BlockSize,
             end |-> i * BlockSize,
             hash |-> FileHash(SubSeq(bytes, (i - 1) * BlockSize + 1, i * BlockSize))]] >>

calculateFileHash(bytes) ==
  [filehash |-> FileHash(bytes), hashBlocks |-> HashBlocksOf(bytes)]

Hashes == {FileHash(b) : b \in Contents}

(***************************************************************************)
(* zipFile: the stored form of a compressed blob is not the plain bytes.   *)
(***************************************************************************)
ZipMagic == <<80, 75>>
zipFile(bytes) == ZipMagic \o bytes

(***************************************************************************)
(* getObjectPath / dstFile: objects/<h[0:2]>/<h[2:4]>/<h>                  *)
(***************************************************************************)
\* a slip in the second shard: the first two characters taken twice
ObjectPath_flat(hash) == <<SubSeq(hash, 1, 2), SubSeq(hash, 1, 2), hash>>

ObjectPath(hash) == <<SubSeq(hash, 1, 2), SubSeq(hash, 3, 4), hash>>

defaultConfig == [version |-> DefaultVersion, filemode |-> FALSE, symlinks |-> TRUE]

JSONstringify(cfg) == <<"{", cfg.version, cfg.filemode, cfg.symlinks, "}">>
JSONparse(text) == [version |-> text[2], filemode |-> text[3], symlinks |-> text[4]]

MetaDirs == {"objects", "versions", "hooks", "refs"}

(***************************************************************************)
(* Text and JSON.  A text is a sequence of symbols: a symbol is one of the *)
(* characters that matter to JSON (quote, backslash, newline, brackets,    *)
(* comma, colon) or a run of ordinary characters such as a word or a       *)
(* number.  White space between tokens is left out.                        *)
(***************************************************************************)
Quote == "\""
Backslash == "\\"
Newline == "\n"

NumSym == <<"0", "1", "2", "3", "4", "5", "6", "7", "8", "9">>
IsNumSym(c) == \E n \in 1..Len(NumSym) : NumSym[n] = c
NumOf(c) == (CHOOSE n \in 1..Len(NumSym) : NumSym[n] = c) - 1

\* JavaScript values
JUndefined == [t |-> "undefined"]
JStr(s) == [t |-> "string", s |-> s]
JNum(n) == [t |-> "number", n |-> n]
JArr(a) == [t |-> "array", a |-> a]
JObj(k, o) == [t |-> "object", k |-> k, o |-> o]

\* obj[key], undefined when the object has no such property
Get(obj, key) ==
  IF obj.t = "object" /\ \E i \in 1..Len(obj.k) : obj.k[i] = key
    THEN obj.o[CHOOSE i \in 1..Len(obj.k) :
                 obj.k[i] = key /\ \A j \in (i + 1)..Len(obj.k) : obj.k[j] # key]
    ELSE JUndefined

\* !!value
Truthy(value) ==
  CASE value.t = "undefined" -> FALSE
    [] value.t = "null" -> FALSE
    [] value.t = "string" -> value.s # <<>>
    [] value.t = "number" -> value.n # 0
    [] OTHER -> TRUE

RECURSIVE JoinSeqs(_, _)
JoinSeqs(parts, sep) ==
  IF parts = <<>> THEN <<>>
  ELSE IF Len(parts) = 1 THEN parts[1]
  ELSE parts[1] \o sep \o JoinSeqs(Tail(parts), sep)

\* the characters of a string as JSON.stringify writes them inside quotes
RECURSIVE Escape(_)
Escape(s) ==
  IF s = <<>> THEN <<>>
  ELSE (CASE s[1] = Quote -> <<Backslash, Quote>>
          [] s[1] = Backslash -> <<Backslash, Backslash>>
          [] s[1] = Newline -> <<Backslash, "n">>
          [] OTHER -> <<s[1]>>) \o Escape(Tail(s))

\* JSON.stringify(value); properties whose value is undefined are left out
RECURSIVE JSONStringify(_)
JSONStringify(value) ==
  CASE value.t = "string" -> <<Quote>> \o Escape(value.s) \o <<Quote>>
    [] value.t = "number" -> <<NumSym[value.n + 1]>>
    [] value.t = "null" -> <<"null">>
    [] value.t = "array" ->
         <<"[">> \o JoinSeqs([i \in 1..Len(value.a) |-> JSONStringify(value.a[i])], <<",">>)
         \o <<"]">>
    [] value.t = "object" ->
         LET kept == SelectSeq([i \in 1..Len(value.k) |-> i],
                               LAMBDA i : value.o[i].t # "undefined")
         IN <<"{">>
            \o JoinSeqs([j \in 1..Len(kept) |->
                          <<Quote>> \o Escape(value.k[kept[j]]) \o <<Quote, ":">>
                          \o JSONStringify(value.o[kept[j]])], <<",">>)
            \o <<"}">>

\* JSON.parse: [ok, val, pos]; pos is the index of the first symbol not read
ParseFail == [ok |-> FALSE, val |-> JUndefined, pos |-> 0]
ParseOk(v, p) == [ok |-> TRUE, val |-> v, pos |-> p]

RECURSIVE ScanString(_, _, _)
ScanString(text, i, acc) ==
  IF i > Len(text) THEN ParseFail
  ELSE IF text[i] = Quote THEN ParseOk(JStr(acc), i + 1)
  ELSE IF text[i] = Newline THEN ParseFail
  ELSE IF text[i] = Backslash
    THEN IF i + 1 > Len(text) THEN ParseFail
         ELSE IF text[i + 1] \in {Quote, Backslash}
           THEN ScanString(text, i + 2, Append(acc, text[i + 1]))
         ELSE IF text[i + 1] = "n"
           THEN ScanString(text, i + 2, Append(acc, Newline))
         ELSE ParseFail
  ELSE ScanString(text, i + 1, Append(acc, text[i]))

RECURSIVE ParseValue(_, _)
RECURSIVE ParseElements(_, _, _)
RECURSIVE ParseMembers(_, _, _, _)

ParseValue(text, i) ==
  IF i > Len(text) THEN ParseFail
  ELSE IF text[i] = Quote THEN ScanString(text, i + 1, <<>>)
  ELSE IF IsNumSym(text[i]) THEN ParseOk(JNum(NumOf(text[i])), i + 1)
  ELSE IF text[i] = "null" THEN ParseOk([t |-> "null"], i + 1)
  ELSE IF text[i] = "["
    THEN IF i + 1 <= Len(text) /\ text[i + 1] = "]"
           THEN ParseOk(JArr(<<>>), i + 2)
           ELSE ParseElements(text, i + 1, <<>>)
  ELSE IF text[i] = "{"
    THEN IF i + 1 <= Len(text) /\ text[i + 1] = "}"
           THEN ParseOk(JObj(<<>>, <<>>), i + 2)
           ELSE ParseMembers(text, i + 1, <<>>, <<>>)
  ELSE ParseFail

ParseElements(text, i, acc) ==
  LET r == ParseValue(text, i)
  IN IF ~r.ok \/ r.pos > Len(text) THEN ParseFail
     ELSE IF text[r.pos] = "," THEN ParseElements(text, r.pos + 1, Append(acc, r.val))
     ELSE IF text[r.pos] = "]" THEN ParseOk(JArr(Append(acc, r.val)), r.pos + 1)
     ELSE ParseFail

ParseMembers(text, i, keys, vals) ==
  IF i > Len(text) \/ text[i] # Quote THEN ParseFail
  ELSE LET k == ScanString(text, i + 1, <<>>)
       IN IF ~k.ok \/ k.pos > Len(text) \/ text[k.pos] # ":" THEN ParseFail
          ELSE LET r == ParseValue(text, k.pos + 1)
               IN IF ~r.ok \/ r.pos > Len(text) THEN ParseFail
                  ELSE IF text[r.pos] = ","
                    THEN ParseMembers(text, r.pos + 1, Append(keys, k.val.s), Append(vals, r.val))
                  ELSE IF text[r.pos] = "}"
                    THEN ParseOk(JObj(Append(keys, k.val.s), Append(vals, r.val)), r.pos + 1)
                  ELSE ParseFail

\* JSON.parse(text): <<>> when it throws a SyntaxError, else <<value>>
JSONParse(text) ==
  LET r == ParseValue(text, 1)
  IN IF r.ok /\ r.pos = Len(text) + 1 THEN <<r.val>> ELSE <<>>

JNull == [t |-> "null"]
EmptyObject == JObj(<<>>, <<>>)

\* value ?? fallback
Coalesce(value, fallback) ==
  IF value.t \in {"undefined", "null"} THEN fallback ELSE value

(***************************************************************************)
(* class Reference                                                         *)
(***************************************************************************)
Reference(refName, c) ==
  [refName |-> refName,
   hash |-> c.hash,
   userData |-> Coalesce(c.userData, EmptyObject),
   start |-> c.start]

getName(ref) == ref.refName

isDetached_never(ref) == ref.refName = ""

isDetached(ref) == ref.refName = "HEAD"

\* the references handed to the store: branch names and the HEAD sentinel,
\* with and without target hash, start and user data
RefNames == {"HEAD", "main", "dev"}
SampleUserData ==
  JObj(<< <<"str_key">>, <<"int_key">> >>, << JStr(<<"str_value">>), JNum(3) >>)

AllReferences ==
  [refName : RefNames,
   hash : {JUndefined, JNull, JStr(<<>>), JStr(<<"c1">>)},
   start : {JUndefined, JStr(<<"c2">>)},
   userData : {JUndefined, SampleUserData}]

\* start and userData vary on the references that writeReference persists
References ==
  {ref \in AllReferences :
     (ref.refName = "HEAD" \/ ref.hash # JStr(<<"c1">>)) =>
       (ref.start = JUndefined /\ ref.userData = JUndefined)}

\* writeHeadReference looks at the name, and at the hash of a reference
\* named HEAD
Heads ==
  {ref \in References :
     /\ ref.start = JUndefined /\ ref.userData = JUndefined
     /\ ref.refName # "HEAD" => ref.hash = JStr(<<"c1">>)}

NoReference ==
  [refName |-> "", hash |-> JUndefined, start |-> JUndefined, userData |-> JUndefined]

(***************************************************************************)
(* Commits and their trees.  A tree node is a directory (TreeDir) or a     *)
(* file (TreeFile); names, hashes, messages and tags are texts.            *)
(***************************************************************************)
TreeFile(name, hash) ==
  [kind |-> "file", name |-> name, hash |-> hash, children |-> <<>>]

TreeDir(name, children) ==
  [kind |-> "dir", name |-> name, hash |-> <<>>, children |-> children]

\* node.toString(true): a directory carries its children, in order, under
\* "children"; a file carries its hash
RECURSIVE TreeToString(_)
TreeToString(node) ==
  IF node.kind = "dir"
    THEN <<"{", Quote, "name", Quote, ":", Quote>> \o node.name
         \o <<Quote, ",", Quote, "children", Quote, ":", "[">>
         \o JoinSeqs([i \in 1..Len(node.children) |-> TreeToString(node.children[i])],
                     <<",">>)
         \o <<"]", "}">>
    ELSE <<"{", Quote, "name", Quote, ":", Quote>> \o node.name
         \o <<Quote, ",", Quote, "hash", Quote, ":", Quote>> \o node.hash
         \o <<Quote, "}">>

CommitHashes == {<<"c1">>, <<"c2">>}

\* multi-level trees, one with a directory without children
Roots ==
  { TreeDir(<<>>, << TreeFile(<<"a.psd">>, <<"h1">>),
                     TreeDir(<<"sub">>, << TreeFile(<<"b.psd">>, <<"h2">>),
                                           TreeDir(<<"empty">>, <<>>) >>),
                     TreeFile(<<"c.psd">>, <<"h1">>) >>),
    TreeDir(<<>>, << TreeDir(<<"x">>, << TreeDir(<<"y">>,
                                            << TreeFile(<<"z.psd">>, <<"h2">>) >>) >>) >>) }

PlainMessage == <<"unit test">>
Messages ==
  {PlainMessage, <<"say ", Quote, "hi", Quote>>, <<"C:", Backslash, "work">>,
   <<"line one", Newline, "line two">>}

TagLists ==
  {JUndefined, JArr(<<>>), JArr(<<JStr(<<"FirstTag">>)>>),
   JArr(<<JStr(<<"FirstTag">>), JStr(<<"SecondTag">>)>>),
   JArr(<<JStr(<<"6", Quote>>)>>)}

ParentLists == {<<>>, <<<<"c1">>>>, <<<<"c1">>, <<"c2">>>>}

CommitDate == 7

AllCommits ==
  [hash : CommitHashes, message : Messages, date : {CommitDate},
   parent : ParentLists, root : Roots, tags : TagLists,
   userData : {JUndefined, SampleUserData}]

PlainCommit(c) ==
  /\ c.message = PlainMessage
  /\ c.parent = <<>>
  /\ c.root = CHOOSE r \in Roots : Len(r.children) = 1
  /\ c.tags = JUndefined
  /\ c.userData = JUndefined

\* the commits handed to the store: a plain commit, and the commits that
\* differ from it in the message, in the parents, in the tree, or in tags
\* and user data
Commits ==
  {c \in AllCommits :
     \/ PlainCommit([c EXCEPT !.message = PlainMessage])
     \/ PlainCommit([c EXCEPT !.parent = <<>>])
     \/ PlainCommit([c EXCEPT !.root = CHOOSE r \in Roots : Len(r.children) = 1])
     \/ PlainCommit([c EXCEPT !.tags = JUndefined, !.userData = JUndefined])}

NoCommit ==
  [hash |-> <<>>, message |-> <<>>, date |-> 0, parent |-> <<>>,
   root |-> TreeDir(<<>>, <<>>), tags |-> JUndefined, userData |-> JUndefined]

\* osWalk(objectsDir, OSWALK.FILES) lists the files in this order
CommitOrder == <<<<"c1">>, <<"c2">>>>

\* osWalk(refsDir, OSWALK.FILES) lists the files in this order
WalkOrder == <<"HEAD", "dev", "main">>

VARIABLES
  compress,     \* repo.options.compress
  commondir,    \* TRUE when the metadata directory exists
  dirs,         \* the directories directly under the metadata directory
  configFile,   \* <<>> when absent, else <<text of the config file>>
  objects,      \* blobs under objects/, by sharded path
  hblocks,      \* sidecar files <object path>.hblock, by object path
  tmp,          \* files under tmp/, by temp name
  worktree,     \* files materialised by readObject, by destination path
  odb,          \* <<>> when no handle was returned, else <<odb.config>>
  createResult, \* outcome of the last create
  openResult,   \* outcome of the last open
  pc,           \* writeObject: the step each call is about to take
  alive,        \* writeObject: FALSE once the call was interrupted
  src,          \* writeObject: the bytes of the file at filepath
  filehash,     \* writeObject: local filehash
  hashBlocks,   \* writeObject: local hashBlocks, <<>> when undefined
  exists,       \* writeObject: the outcome of pathExists(dstFile)
  result,       \* writeObject: <<>> or <<the hash returned>>
  steps,        \* writeObject: the steps completed by each call, in order
  rpc,          \* readObject: the step the reader is about to take
  rhash,        \* readObject: argument hash
  rdst,         \* readObject: argument dst
  readResult,   \* readObject: outcome of the last call
  readCopied,   \* readObject: TRUE when the last call invoked copyFile
  refs,         \* files under refs/, by file name
  headFile,     \* <<>> when absent, else <<text of the file HEAD>>
  refsWritten,  \* by name, the reference the file under refs/ was written from
  call,         \* the last call on the reference store, and its outcome
  versions,     \* files under versions/, by file name
  commitsWritten, \* by file name, the commit the file was written from
  ccall         \* the last call on the commit store, and its outcome

diskvars == <<commondir, dirs, configFile, objects, hblocks, tmp>>
bootvars == <<odb, createResult, openResult>>
wvars == <<pc, alive, src, filehash, hashBlocks, exists, result, steps>>
rvars == <<rpc, rhash, rdst, readResult, readCopied, worktree>>
refvars == <<refs, headFile, refsWritten, call>>
commitvars == <<versions, commitsWritten, ccall>>
vars == <<compress, diskvars, bootvars, wvars, rvars, refvars, commitvars>>

CommitCalled(op, commit, out, commitsRead) ==
  [op |-> op, commit |-> commit, out |-> out, commitsRead |-> commitsRead]

\* the record of a call: the operation, its argument, how it ended, and
\* what it returned
Called(op, ref, out, refsRead, headRead) ==
  [op |-> op, ref |-> ref, out |-> out, refsRead |-> refsRead, headRead |-> headRead]

Init ==
  /\ compress \in BOOLEAN
  /\ commondir = FALSE
  /\ dirs = {}
  /\ configFile = <<>>
  /\ objects = Empty
  /\ hblocks = Empty
  /\ tmp = Empty
  /\ worktree = Empty
  /\ odb = <<>>
  /\ createResult = "none"
  /\ openResult = "none"
  /\ pc = [c \in Calls |-> "idle"]
  /\ alive = [c \in Calls |-> TRUE]
  /\ src = [c \in Calls |-> <<>>]
  /\ filehash = [c \in Calls |-> <<>>]
  /\ hashBlocks = [c \in Calls |-> <<>>]
  /\ exists = [c \in Calls |-> FALSE]
  /\ result = [c \in Calls |-> <<>>]
  /\ steps = [c \in Calls |-> <<>>]
  /\ rpc = "idle"
  /\ rhash = <<>>
  /\ rdst = "dst"
  /\ readResult = "none"
  /\ readCopied = FALSE
  /\ refs = Empty
  /\ headFile = <<>>
  /\ refsWritten = Empty
  /\ call = Called("none", NoReference, "none", <<>>, <<>>)
  /\ versions = Empty
  /\ commitsWritten = Empty
  /\ ccall = CommitCalled("none", NoCommit, "none", <<>>)

(***************************************************************************)
(* Odb.create                                                              *)
(***************************************************************************)
\* create that forgets the hook directory
Create_nohooks ==
  /\ IF commondir
       THEN /\ createResult' = "already exists"
            /\ UNCHANGED <<diskvars, odb>>
       ELSE /\ commondir' = TRUE
            /\ dirs' = dirs \cup (MetaDirs \ {"hooks"})
            /\ configFile' = <<JSONstringify(defaultConfig)>>
            /\ odb' = <<defaultConfig>>
            /\ createResult' = "ok"
            /\ UNCHANGED <<objects, hblocks, tmp>>
  /\ UNCHANGED <<commitvars, refvars, compress, openResult, wvars, rvars>>

\* create without the pathExists test: ensureDir and writeFile run anyway
Create_force ==
  /\ commondir' = TRUE
  /\ dirs' = dirs \cup MetaDirs
  /\ configFile' = <<JSONstringify(defaultConfig)>>
  /\ odb' = <<defaultConfig>>
  /\ createResult' = "ok"
  /\ UNCHANGED <<objects, hblocks, tmp>>
  /\ UNCHANGED <<commitvars, refvars, compress, openResult, wvars, rvars>>

Create ==
  /\ IF commondir
       THEN /\ createResult' = "already exists"
            /\ UNCHANGED <<diskvars, odb>>
       ELSE /\ commondir' = TRUE
            /\ dirs' = dirs \cup MetaDirs
            /\ configFile' = <<JSONstringify(defaultConfig)>>
            /\ odb' = <<defaultConfig>>
            /\ createResult' = "ok"
            /\ UNCHANGED <<objects, hblocks, tmp>>
  /\ UNCHANGED <<commitvars, refvars, compress, openResult, wvars, rvars>>

(***************************************************************************)
(* A store written earlier by another release of the tool: the same        *)
(* layout with the schema version of that release.                         *)
(***************************************************************************)
StoredRepository(v) ==
  /\ ~commondir
  /\ commondir' = TRUE
  /\ dirs' = dirs \cup MetaDirs
  /\ configFile' = <<JSONstringify([defaultConfig EXCEPT !.version = v])>>
  /\ UNCHANGED <<commitvars, refvars, objects, hblocks, tmp, compress, bootvars, wvars, rvars>>

(***************************************************************************)
(* Odb.open                                                                *)
(***************************************************************************)
Open ==
  /\ IF configFile = <<>>
       THEN /\ openResult' = "ENOENT"
            /\ UNCHANGED odb
       ELSE LET config == JSONparse(configFile[1])
            IN IF config.version = UnsupportedVersion
                 THEN /\ openResult' = "not supported"
                      /\ UNCHANGED odb
                 ELSE /\ openResult' = "ok"
                      /\ odb' = <<config>>
  /\ UNCHANGED <<commitvars, refvars, compress, diskvars, createResult, wvars, rvars>>

(***************************************************************************)
(* Odb.writeObject, one action per link of its promise chain.              *)
(***************************************************************************)
Running(c) == alive[c] /\ pc[c] \notin {"idle", "done", "failed"}

\* a temp name that does not depend on the call
TmpName_shared(c) == 1

\* tmpFilename: sha256 of process.hrtime(), a name no other call uses
TmpName(c) == c

\* the call: filepath names a file holding bytes
WriteObject(c, bytes) ==
  /\ odb # <<>>
  /\ pc[c] = "idle"
  /\ \A d \in Calls : d < c => pc[d] # "idle"
  /\ pc' = [pc EXCEPT ![c] = "ensureDir"]
  /\ src' = [src EXCEPT ![c] = bytes]
  /\ UNCHANGED <<alive, filehash, hashBlocks, exists, result, steps>>
  /\ UNCHANGED <<commitvars, refvars, compress, diskvars, bootvars, rvars>>

\* fse.ensureDir(tmpDir, {})
EnsureDir(c) ==
  /\ alive[c] /\ pc[c] = "ensureDir"
  /\ commondir' = TRUE
  /\ dirs' = dirs \cup {"tmp"}
  /\ pc' = [pc EXCEPT ![c] = "copy"]
  /\ UNCHANGED <<configFile, objects, hblocks, tmp>>
  /\ UNCHANGED <<alive, src, filehash, hashBlocks, exists, result, steps>>
  /\ UNCHANGED <<commitvars, refvars, compress, bootvars, rvars>>

\* ioContext.copyFile(filepath, tmpPath)
CopyToTmp(c) ==
  /\ alive[c] /\ pc[c] = "copy"
  /\ tmp' = Put(tmp, TmpName(c), src[c])
  /\ pc' = [pc EXCEPT ![c] = "hash"]
  /\ steps' = [steps EXCEPT ![c] = Append(@, "copy")]
  /\ UNCHANGED <<commondir, dirs, configFile, objects, hblocks>>
  /\ UNCHANGED <<alive, src, filehash, hashBlocks, exists, result>>
  /\ UNCHANGED <<commitvars, refvars, compress, bootvars, rvars>>

\* calculateFileHash(filepath), then filehash = res.filehash, hashBlocks = res.hashBlocks
HashSource(c) ==
  /\ alive[c] /\ pc[c] = "hash"
  /\ LET res == calculateFileHash(src[c])
     IN /\ filehash' = [filehash EXCEPT ![c] = res.filehash]
        /\ hashBlocks' = [hashBlocks EXCEPT ![c] = res.hashBlocks]
  /\ pc' = [pc EXCEPT ![c] = "exists"]
  /\ steps' = [steps EXCEPT ![c] = Append(@, "hash")]
  /\ UNCHANGED <<alive, src, exists, result>>
  /\ UNCHANGED <<commitvars, refvars, compress, diskvars, bootvars, rvars>>

\* a hasher that reports a source without hash blocks as an empty list
HashSourceEmptyList(c) ==
  /\ alive[c] /\ pc[c] = "hash"
  /\ calculateFileHash(src[c]).hashBlocks = <<>>
  /\ filehash' = [filehash EXCEPT ![c] = calculateFileHash(src[c]).filehash]
  /\ hashBlocks' = [hashBlocks EXCEPT ![c] = <<<<>>>>]
  /\ pc' = [pc EXCEPT ![c] = "exists"]
  /\ steps' = [steps EXCEPT ![c] = Append(@, "hash")]
  /\ UNCHANGED <<alive, src, exists, result>>
  /\ UNCHANGED <<commitvars, refvars, compress, diskvars, bootvars, rvars>>

dstFile(c) == ObjectPath(filehash[c])

\* the destination is opened for writing as soon as it is known to be absent
PathExists_inplace(c) ==
  /\ alive[c] /\ pc[c] = "exists"
  /\ exists' = [exists EXCEPT ![c] = dstFile(c) \in DOMAIN objects]
  /\ objects' = IF dstFile(c) \in DOMAIN objects THEN objects
                ELSE Put(objects, dstFile(c), <<>>)
  /\ pc' = [pc EXCEPT ![c] = "transfer"]
  /\ steps' = [steps EXCEPT ![c] = Append(@, "exists")]
  /\ UNCHANGED <<commondir, dirs, configFile, hblocks, tmp>>
  /\ UNCHANGED <<alive, src, filehash, hashBlocks, result>>
  /\ UNCHANGED <<commitvars, refvars, compress, bootvars, rvars>>

\* fse.pathExists(dstFile)
PathExists(c) ==
  /\ alive[c] /\ pc[c] = "exists"
  /\ exists' = [exists EXCEPT ![c] = dstFile(c) \in DOMAIN objects]
  /\ pc' = [pc EXCEPT ![c] = "transfer"]
  /\ steps' = [steps EXCEPT ![c] = Append(@, "exists")]
  /\ UNCHANGED <<alive, src, filehash, hashBlocks, result>>
  /\ UNCHANGED <<commitvars, refvars, compress, diskvars, bootvars, rvars>>

\* the promise of the transfer is not returned: the chain goes on without it
Transfer_unawaited(c) ==
  /\ alive[c] /\ pc[c] = "transfer"
  /\ pc' = [pc EXCEPT ![c] = "sidecar"]
  /\ UNCHANGED <<alive, src, filehash, hashBlocks, exists, result, steps>>
  /\ UNCHANGED <<commitvars, refvars, compress, diskvars, bootvars, rvars>>

\* fse.remove(tmpPath) | zipFile(tmpPath, dstFile, {deleteSrc}) | fse.move(tmpPath, dstFile, {overwrite})
Transfer(c) ==
  /\ alive[c] /\ pc[c] = "transfer"
  /\ IF exists[c]
       THEN /\ tmp' = Del(tmp, TmpName(c))
            /\ steps' = [steps EXCEPT ![c] = Append(@, "remove")]
            /\ pc' = [pc EXCEPT ![c] = "sidecar"]
            /\ UNCHANGED objects
       ELSE IF TmpName(c) \notin DOMAIN tmp
         THEN \* the temp file is gone: the promise rejects with ENOENT
              /\ pc' = [pc EXCEPT ![c] = "failed"]
              /\ UNCHANGED <<objects, tmp, steps>>
         ELSE IF compress
           THEN /\ objects' = Put(objects, dstFile(c), zipFile(tmp[TmpName(c)]))
                /\ tmp' = Del(tmp, TmpName(c))
                /\ steps' = [steps EXCEPT ![c] = Append(@, "zip")]
                /\ pc' = [pc EXCEPT ![c] = "sidecar"]
           ELSE /\ objects' = Put(objects, dstFile(c), tmp[TmpName(c)])
                /\ tmp' = Del(tmp, TmpName(c))
                /\ steps' = [steps EXCEPT ![c] = Append(@, "move")]
                /\ pc' = [pc EXCEPT ![c] = "sidecar"]
  /\ UNCHANGED <<commondir, dirs, configFile, hblocks>>
  /\ UNCHANGED <<alive, src, filehash, hashBlocks, exists, result>>
  /\ UNCHANGED <<commitvars, refvars, compress, bootvars, rvars>>

\* one line `${block.start};${block.end};${block.hash};` per block
HblockContent(blocks) ==
  [i \in 1..Len(blocks) |-> <<blocks[i].start, ";", blocks[i].end, ";", blocks[i].hash, ";">>]

\* if (hashBlocks) fse.writeFile(`${dstFile}.hblock`, content)
Sidecar(c) ==
  /\ alive[c] /\ pc[c] = "sidecar"
  /\ IF hashBlocks[c] # <<>>
       THEN /\ hblocks' = Put(hblocks, dstFile(c), HblockContent(hashBlocks[c][1]))
            /\ steps' = [steps EXCEPT ![c] = Append(@, "sidecar")]
       ELSE UNCHANGED <<hblocks, steps>>
  /\ pc' = [pc EXCEPT ![c] = "return"]
  /\ UNCHANGED <<commondir, dirs, configFile, objects, tmp>>
  /\ UNCHANGED <<alive, src, filehash, hashBlocks, exists, result>>
  /\ UNCHANGED <<commitvars, refvars, compress, bootvars, rvars>>

\* .then(() => ({ file, hash: filehash }))
Return(c) ==
  /\ alive[c] /\ pc[c] = "return"
  /\ result' = [result EXCEPT ![c] = <<filehash[c]>>]
  /\ pc' = [pc EXCEPT ![c] = "done"]
  /\ steps' = [steps EXCEPT ![c] = Append(@, "return")]
  /\ UNCHANGED <<alive, src, filehash, hashBlocks, exists>>
  /\ UNCHANGED <<commitvars, refvars, compress, diskvars, bootvars, rvars>>

\* the process is killed between two steps of the call
Crash(c) ==
  /\ Running(c)
  /\ alive' = [alive EXCEPT ![c] = FALSE]
  /\ UNCHANGED <<pc, src, filehash, hashBlocks, exists, result, steps>>
  /\ UNCHANGED <<commitvars, refvars, compress, diskvars, bootvars, rvars>>

\* another process rewrites the source file after it was copied and before it is hashed
ModifySource(c, bytes) ==
  /\ alive[c] /\ pc[c] = "hash"
  /\ bytes # src[c]
  /\ tmp[TmpName(c)] = src[c]
  /\ src' = [src EXCEPT ![c] = bytes]
  /\ UNCHANGED <<pc, alive, filehash, hashBlocks, exists, result, steps>>
  /\ UNCHANGED <<commitvars, refvars, compress, diskvars, bootvars, rvars>>

(***************************************************************************)
(* Odb.readObject                                                          *)
(***************************************************************************)
\* the call
ReadObject(hash, dst) ==
  /\ odb # <<>>
  /\ rpc = "idle"
  /\ rhash' = hash
  /\ rdst' = dst
  /\ rpc' = "exists"
  /\ readResult' = "pending"
  /\ readCopied' = FALSE
  /\ UNCHANGED <<commitvars, refvars, worktree, compress, diskvars, bootvars, wvars>>

\* the outcome of pathExists is ignored
ReadExists_unchecked ==
  /\ rpc = "exists"
  /\ rpc' = "copy"
  /\ UNCHANGED <<rhash, rdst, readResult, readCopied, worktree>>
  /\ UNCHANGED <<commitvars, refvars, compress, diskvars, bootvars, wvars>>

\* fse.pathExists(objectFile), throw when it does not
ReadExists ==
  /\ rpc = "exists"
  /\ IF ObjectPath(rhash) \in DOMAIN objects
       THEN /\ rpc' = "copy"
            /\ UNCHANGED readResult
       ELSE /\ rpc' = "idle"
            /\ readResult' = "not found"
  /\ UNCHANGED <<rhash, rdst, readCopied, worktree>>
  /\ UNCHANGED <<commitvars, refvars, compress, diskvars, bootvars, wvars>>

\* ioContext.copyFile(objectFile, dst)
ReadCopy ==
  /\ rpc = "copy"
  /\ readCopied' = TRUE
  /\ IF ObjectPath(rhash) \in DOMAIN objects
       THEN /\ worktree' = Put(worktree, rdst, objects[ObjectPath(rhash)])
            /\ readResult' = "ok"
       ELSE \* nothing to copy from: the promise rejects with ENOENT
            /\ readResult' = "ENOENT"
            /\ UNCHANGED worktree
  /\ rpc' = "idle"
  /\ UNCHANGED <<rhash, rdst>>
  /\ UNCHANGED <<commitvars, refvars, compress, diskvars, bootvars, wvars>>

(***************************************************************************)
(* References and HEAD.  Every call is one file operation; `call` keeps    *)
(* the last call with its argument and its outcome.                        *)
(***************************************************************************)
\* the object literal handed to JSON.stringify by writeReference
ReferenceContent(ref) ==
  JObj(<< <<"hash">>, <<"start">>, <<"userData">> >>,
       << ref.hash,
          IF Truthy(ref.start) THEN ref.start ELSE JUndefined,
          Coalesce(ref.userData, EmptyObject) >>)

WriteReference_nohashcheck(ref) ==
  /\ createResult = "ok"
  /\ IF isDetached(ref)
       THEN /\ call' = Called("writeReference", ref, "warned", <<>>, <<>>)
            /\ UNCHANGED <<refs, refsWritten>>
       ELSE /\ refs' = Put(refs, getName(ref), JSONStringify(ReferenceContent(ref)))
            /\ refsWritten' = Put(refsWritten, getName(ref), ref)
            /\ call' = Called("writeReference", ref, "ok", <<>>, <<>>)
  /\ UNCHANGED <<headFile, commitvars, compress, diskvars, bootvars, wvars, rvars>>

WriteReference(ref) ==
  /\ createResult = "ok"
  /\ IF isDetached(ref)
       THEN \* console.warn, return
            /\ call' = Called("writeReference", ref, "warned", <<>>, <<>>)
            /\ UNCHANGED <<refs, refsWritten>>
     ELSE IF ~Truthy(ref.hash)
       THEN /\ call' = Called("writeReference", ref, "hash value of ref is undefined", <<>>, <<>>)
            /\ UNCHANGED <<refs, refsWritten>>
       ELSE /\ refs' = Put(refs, getName(ref), JSONStringify(ReferenceContent(ref)))
            /\ refsWritten' = Put(refsWritten, getName(ref), ref)
            /\ call' = Called("writeReference", ref, "ok", <<>>, <<>>)
  /\ UNCHANGED <<headFile, commitvars, compress, diskvars, bootvars, wvars, rvars>>

\* where a write of the text can stop: before the first symbol, or before
\* the last one
Cuts(text) == {0, Len(text) - 1}

\* the process stops inside fse.writeFile: the file under refs/ holds the
\* first k symbols of the text and nothing reports the reference written
InterruptedWrite(ref, k) ==
  /\ createResult = "ok"
  /\ ~isDetached(ref)
  /\ Truthy(ref.hash)
  /\ k \in Cuts(JSONStringify(ReferenceContent(ref)))
  /\ refs' = Put(refs, getName(ref), SubSeq(JSONStringify(ReferenceContent(ref)), 1, k))
  /\ refsWritten' = Del(refsWritten, getName(ref))
  /\ call' = Called("writeReference", ref, "interrupted", <<>>, <<>>)
  /\ UNCHANGED <<headFile, commitvars, compress, diskvars, bootvars, wvars, rvars>>

readReference_keeps(name) ==
  LET parsed == JSONParse(refs[name])
  IN IF parsed = <<>>
       THEN <<[ref |-> name, content |-> EmptyObject]>>
       ELSE <<[ref |-> name, content |-> parsed[1]]>>

\* readReference: null when the file does not parse
readReference(name) ==
  LET parsed == JSONParse(refs[name])
  IN IF parsed = <<>> THEN <<>> ELSE <<[ref |-> name, content |-> parsed[1]]>>

\* the files under refs/ in walk order, those that parse only
ParsedReferences ==
  LET files == SelectSeq(WalkOrder, LAMBDA n : n \in DOMAIN refs)
      kept == SelectSeq(files, LAMBDA n : readReference(n) # <<>>)
  IN [i \in 1..Len(kept) |-> readReference(kept[i])[1]]

ReadReferences_nostart ==
  /\ createResult = "ok"
  /\ LET rets == ParsedReferences
     IN IF \E i \in 1..Len(rets) : rets[i].content.t = "null"
          THEN call' = Called("readReferences", NoReference, "TypeError", <<>>, <<>>)
          ELSE call' = Called("readReferences", NoReference, "ok",
                         [i \in 1..Len(rets) |->
                            Reference(rets[i].ref,
                                      [hash |-> Get(rets[i].content, <<"hash">>),
                                       start |-> JUndefined,
                                       userData |-> Get(rets[i].content, <<"userData">>)])],
                         <<>>)
  /\ UNCHANGED <<refs, headFile, refsWritten, commitvars, compress, diskvars, bootvars, wvars, rvars>>

ReadReferences ==
  /\ createResult = "ok"
  /\ LET rets == ParsedReferences
     IN IF \E i \in 1..Len(rets) : rets[i].content.t = "null"
          THEN \* ret.content.hash on null
               call' = Called("readReferences", NoReference, "TypeError", <<>>, <<>>)
          ELSE call' = Called("readReferences", NoReference, "ok",
                         [i \in 1..Len(rets) |->
                            Reference(rets[i].ref,
                                      [hash |-> Get(rets[i].content, <<"hash">>),
                                       start |-> Get(rets[i].content, <<"start">>),
                                       userData |-> Get(rets[i].content, <<"userData">>)])],
                         <<>>)
  /\ UNCHANGED <<refs, headFile, refsWritten, commitvars, compress, diskvars, bootvars, wvars, rvars>>

\* one reference of each name
Named == {ref \in Heads : ref.hash = JStr(<<"c1">>)}

DeleteHeadReference_remove(ref) ==
  /\ createResult = "ok"
  /\ refs' = Del(refs, getName(ref))
  /\ refsWritten' = Del(refsWritten, getName(ref))
  /\ call' = Called("deleteHeadReference", ref, "ok", <<>>, <<>>)
  /\ UNCHANGED <<headFile, commitvars, compress, diskvars, bootvars, wvars, rvars>>

\* fse.unlink(join(refsDir, ref.getName()))
DeleteHeadReference(ref) ==
  /\ createResult = "ok"
  /\ IF getName(ref) \in DOMAIN refs
       THEN /\ refs' = Del(refs, getName(ref))
            /\ refsWritten' = Del(refsWritten, getName(ref))
            /\ call' = Called("deleteHeadReference", ref, "ok", <<>>, <<>>)
       ELSE /\ call' = Called("deleteHeadReference", ref, "ENOENT", <<>>, <<>>)
            /\ UNCHANGED <<refs, refsWritten>>
  /\ UNCHANGED <<headFile, commitvars, compress, diskvars, bootvars, wvars, rvars>>

\* head.getName() === 'HEAD' ? head.hash : head.getName()
HeadValue(head) == IF getName(head) = "HEAD" THEN head.hash ELSE JStr(<<getName(head)>>)

WriteHeadReference_inrefs(head) ==
  /\ createResult = "ok"
  /\ HeadValue(head).t = "string"
  /\ refs' = Put(refs, "HEAD", HeadValue(head).s)
  /\ call' = Called("writeHeadReference", head, "ok", <<>>, <<>>)
  /\ UNCHANGED <<headFile, refsWritten, commitvars, compress, diskvars, bootvars, wvars, rvars>>

WriteHeadReference(head) ==
  /\ createResult = "ok"
  /\ \/ /\ HeadValue(head).t = "string"
        /\ headFile' = <<HeadValue(head).s>>
        /\ call' = Called("writeHeadReference", head, "ok", <<>>, <<>>)
     \/ \* a detached reference without hash: writeFile is handed undefined
        \* or null, which it either rejects or writes out as a word
        /\ HeadValue(head).t # "string"
        /\ \/ /\ headFile' = <<<<HeadValue(head).t>>>>
              /\ call' = Called("writeHeadReference", head, "ok", <<>>, <<>>)
           \/ /\ UNCHANGED headFile
              /\ call' = Called("writeHeadReference", head, "TypeError", <<>>, <<>>)
  /\ UNCHANGED <<refs, refsWritten, commitvars, compress, diskvars, bootvars, wvars, rvars>>

ReadHeadReference_nocatch ==
  /\ createResult = "ok"
  /\ IF headFile = <<>>
       THEN call' = Called("readHeadReference", NoReference, "ENOENT", <<>>, <<>>)
       ELSE call' = Called("readHeadReference", NoReference, "ok", <<>>, <<JStr(headFile[1])>>)
  /\ UNCHANGED <<refs, headFile, refsWritten, commitvars, compress, diskvars, bootvars, wvars, rvars>>

ReadHeadReference ==
  /\ createResult = "ok"
  /\ IF headFile = <<>>
       THEN \* the catch handler: 'No HEAD found'
            call' = Called("readHeadReference", NoReference, "ok", <<>>, <<JUndefined>>)
       ELSE call' = Called("readHeadReference", NoReference, "ok", <<>>, <<JStr(headFile[1])>>)
  /\ UNCHANGED <<refs, headFile, refsWritten, commitvars, compress, diskvars, bootvars, wvars, rvars>>

\* HEAD as another tool or an editor leaves it: a branch name or a hash
\* followed by a newline
HeadLines == {<<"main">>, <<"c1">>}

EditHead(line) ==
  /\ createResult = "ok"
  /\ headFile' = <<line \o <<Newline>>>>
  /\ call' = Called("edit", NoReference, "ok", <<>>, <<>>)
  /\ UNCHANGED <<refs, refsWritten, commitvars, compress, diskvars, bootvars, wvars, rvars>>

(***************************************************************************)
(* Specifications.  Each one composes the operations of one use of the     *)
(* store; calls of writeObject interleave freely unless stated otherwise.  *)
(***************************************************************************)
WriteSteps ==
  \/ \E c \in Calls : EnsureDir(c)
  \/ \E c \in Calls : CopyToTmp(c)
  \/ \E c \in Calls : HashSource(c)
  \/ \E c \in Calls : PathExists(c)
  \/ \E c \in Calls : Transfer(c)
  \/ \E c \in Calls : Sidecar(c)
  \/ \E c \in Calls : Return(c)

\* no writeObject call is in flight
Quiet == \A c \in Calls : pc[c] \in {"idle", "done", "failed"}

\* concurrent writeObject calls on a repository made by create, with
\* interruptions
Next ==
  \/ ~commondir /\ Create
  \/ \E c \in Calls, bytes \in Contents : WriteObject(c, bytes)
  \/ WriteSteps
  \/ \E c \in Calls : Crash(c)

Spec == Init /\ [][Next]_vars

\* the same calls next to a process that rewrites source files
NextRace ==
  \/ ~commondir /\ Create
  \/ \E c \in Calls, bytes \in Contents : WriteObject(c, bytes)
  \/ WriteSteps
  \/ \E c \in Calls, bytes \in Contents : ModifySource(c, bytes)

SpecRace == Init /\ [][NextRace]_vars

\* a client that writes objects one after the other and reads objects back
NextRead ==
  \/ ~commondir /\ Create
  \/ \E c \in Calls, bytes \in Contents : Quiet /\ WriteObject(c, bytes)
  \/ WriteSteps
  \/ \E hash \in Hashes, dst \in Dsts : ReadObject(hash, dst)
  \/ ReadExists
  \/ ReadCopy

SpecRead == Init /\ [][NextRead]_vars

\* the life cycle of a repository: create, open, stores of other releases
NextBoot ==
  \/ Create
  \/ \E v \in Versions : StoredRepository(v)
  \/ Open
  \/ \E c \in Calls, bytes \in Contents : Quiet /\ WriteObject(c, bytes)
  \/ WriteSteps

SpecBoot == Init /\ [][NextBoot]_vars

\* writeObject calls one after the other, with a hasher that reports no
\* hash blocks either as an absent value or as an empty list
NextSidecar ==
  \/ ~commondir /\ Create
  \/ \E c \in Calls, bytes \in Contents : Quiet /\ WriteObject(c, bytes)
  \/ \E c \in Calls : EnsureDir(c)
  \/ \E c \in Calls : CopyToTmp(c)
  \/ \E c \in Calls : HashSource(c)
  \/ \E c \in Calls : HashSourceEmptyList(c)
  \/ \E c \in Calls : PathExists(c)
  \/ \E c \in Calls : Transfer(c)
  \/ \E c \in Calls : Sidecar(c)
  \/ \E c \in Calls : Return(c)

SpecSidecar == Init /\ [][NextSidecar]_vars

(***************************************************************************)
(* Commits.                                                                *)
(***************************************************************************)
\* `"${commit.parent.join('","')}"`
ParentString(commit) ==
  <<Quote>> \o JoinSeqs(commit.parent, <<Quote, ",", Quote>>) \o <<Quote>>

\* the tags as the forEach loop writes them
TagsString(tags) ==
  JoinSeqs([i \in 1..Len(tags.a) |-> <<Quote>> \o tags.a[i].s \o <<Quote>>], <<",">>)

\* everything writeCommit writes to the stream
CommitText(commit) ==
  <<"{">>
  \o <<Quote, "hash", Quote, ":", Quote>> \o commit.hash \o <<Quote, ",">>
  \o <<Quote, "message", Quote, ":", Quote>> \o commit.message \o <<Quote, ",">>
  \o <<Quote, "date", Quote, ":", NumSym[commit.date + 1], ",">>
  \o <<Quote, "parent", Quote, ":", "[">> \o ParentString(commit) \o <<"]", ",">>
  \o <<Quote, "root", Quote, ":">> \o TreeToString(commit.root)
  \o (IF Truthy(commit.tags)
        THEN <<",", Quote, "tags", Quote, ":", "[">> \o TagsString(commit.tags) \o <<"]">>
        ELSE <<>>)
  \o (IF Truthy(commit.userData)
        THEN <<",", Quote, "userData", Quote, ":">> \o JSONStringify(commit.userData)
        ELSE <<>>)
  \o <<"}">>

WriteCommit(commit) ==
  /\ createResult = "ok"
  /\ versions' = Put(versions, commit.hash, CommitText(commit))
  /\ commitsWritten' = Put(commitsWritten, commit.hash, commit)
  /\ ccall' = CommitCalled("writeCommit", commit, "ok", <<>>)
  /\ UNCHANGED <<refvars, compress, diskvars, bootvars, wvars, rvars>>

\* visit(obj, parent): the node made from a parsed record.  The parent is
\* <<>> for null, else <<the place of the parent node in the tree>>; place
\* is the place of obj itself, the child indices from the root down.
RECURSIVE visit(_, _, _)
visit(obj, parent, place) ==
  LET children == Get(obj, <<"children">>)
  IN IF Truthy(children)
       THEN [kind |-> "dir",
             name |-> Get(obj, <<"name">>),
             hash |-> Get(obj, <<"hash">>),
             children |-> [i \in 1..Len(children.a) |->
                             visit(children.a[i], <<place>>, place \o <<i>>)],
             parent |-> parent]
       ELSE [kind |-> "file",
             name |-> Get(obj, <<"name">>),
             hash |-> Get(obj, <<"hash">>),
             children |-> <<>>,
             parent |-> parent]

ReadCommits ==
  /\ createResult = "ok"
  /\ LET files == SelectSeq(CommitOrder, LAMBDA h : h \in DOMAIN versions)
         parsed == [i \in 1..Len(files) |-> JSONParse(versions[files[i]])]
     IN IF \E i \in 1..Len(files) : parsed[i] = <<>>
          THEN \* JSON.parse throws, Promise.all rejects
               ccall' = CommitCalled("readCommits", NoCommit, "SyntaxError", <<>>)
          ELSE ccall' = CommitCalled("readCommits", NoCommit, "ok",
                          [i \in 1..Len(files) |->
                             [hash |-> Get(parsed[i][1], <<"hash">>),
                              message |-> Get(parsed[i][1], <<"message">>),
                              date |-> Get(parsed[i][1], <<"date">>),
                              parent |-> Get(parsed[i][1], <<"parent">>),
                              root |-> visit(Get(parsed[i][1], <<"root">>), <<>>, <<>>),
                              tags |-> Get(parsed[i][1], <<"tags">>),
                              userData |-> Get(parsed[i][1], <<"userData">>)]])
  /\ UNCHANGED <<versions, commitsWritten, refvars, compress, diskvars, bootvars, wvars, rvars>>

\* calls on the commit store of a repository made by create
NextCommits ==
  \/ ~commondir /\ Create
  \/ \E commit \in Commits : WriteCommit(commit)
  \/ ReadCommits

SpecCommits == Init /\ [][NextCommits]_vars

\* calls on the reference store of a repository made by create
NextRefs ==
  \/ ~commondir /\ Create
  \/ \E ref \in References : WriteReference(ref)
  \/ ReadReferences
  \/ \E head \in Heads : WriteHeadReference(head)
  \/ ReadHeadReference
  \/ \E line \in HeadLines : EditHead(line)

SpecRefs == Init /\ [][NextRefs]_vars

\* the reference store with writes of references that were interrupted
NextCorrupt ==
  \/ ~commondir /\ Create
  \/ \E ref \in References : WriteReference(ref)
  \/ \E ref \in References :
       \E k \in Cuts(JSONStringify(ReferenceContent(ref))) : InterruptedWrite(ref, k)
  \/ ReadReferences

SpecCorrupt == Init /\ [][NextCorrupt]_vars

\* the reference store with references deleted
NextDelete ==
  \/ ~commondir /\ Create
  \/ \E ref \in References : WriteReference(ref)
  \/ \E head \in Heads : WriteHeadReference(head)
  \/ \E ref \in Named : DeleteHeadReference(ref)
  \/ ReadReferences

SpecDelete == Init /\ [][NextDelete]_vars

(***************************************************************************)
(* Properties.                                                             *)
(***************************************************************************)
\* objects/<hash[0:2]>/<hash[2:4]>/<hash>, spelled out
ShardedPath(h) == <<SubSeq(h, 1, 2), SubSeq(h, 3, 4), h>>

\* the blobs of the store whose file name is h
BlobsOf(h) == {p \in DOMAIN objects : p[3] = h}

\* what a transfer of these bytes leaves at the object path
StoredForm(bytes) == IF compress THEN ZipMagic \o bytes ELSE bytes

\* C1: completed writeObject calls on sources with identical bytes returned
\* the same hash, and the store holds exactly one blob for that hash, at
\* objects/<hash[0:2]>/<hash[2:4]>/<hash>.
Thm_C1 ==
  \A c, d \in Calls :
    (pc[c] = "done" /\ pc[d] = "done" /\ src[c] = src[d]) =>
      /\ result[c] = result[d]
      /\ ShardedPath(result[c][1]) \in DOMAIN objects
      /\ Cardinality(BlobsOf(result[c][1])) = 1

\* two completed calls on identical bytes, the second one deduplicated
Wit_C1 ==
  \E c, d \in Calls :
    /\ c # d /\ pc[c] = "done" /\ pc[d] = "done"
    /\ src[c] = src[d] /\ ~exists[c] /\ exists[d]
    /\ Cardinality(DOMAIN objects) = 1

\* C2: writeObject(src) followed by readObject(returned hash, dst) succeeds
\* and leaves at dst a file byte-identical to src, compress flag on or off.
Cex_C2 ==
  [][\A c \in Calls :
       (pc[c] = "done" /\ result[c] = <<rhash>>) =>
         /\ (rpc = "exists" /\ rpc' # rpc) => rpc' = "copy"
         /\ (rpc = "copy" /\ rpc' # rpc) =>
              /\ readResult' = "ok"
              /\ rdst \in DOMAIN worktree'
              /\ worktree'[rdst] = src[c]]_vars

\* C3: an interrupted writeObject call leaves no partial or wrong file at an
\* object path: a step that leaves the call before its move/compress step,
\* and the interruption itself, change nothing under objects/, and the
\* object path of an interrupted call is absent or holds the complete
\* content (in the state after every step).
Thm_C3 ==
  [][\A c \in Calls :
       /\ (~alive'[c] /\ filehash'[c] # <<>>) =>
            \/ ShardedPath(filehash'[c]) \notin DOMAIN objects'
            \/ objects'[ShardedPath(filehash'[c])] = StoredForm(src'[c])
       /\ ( /\ pc'[c] # pc[c] \/ alive'[c] # alive[c]
            /\ pc'[c] \in {"ensureDir", "copy", "hash", "exists", "transfer"} ) =>
            /\ objects' = objects
            /\ hblocks' = hblocks
            /\ \A n \in (DOMAIN tmp) \ {TmpName(c)} :
                 n \in DOMAIN tmp' /\ tmp'[n] = tmp[n]]_vars

\* a call interrupted right before its move/compress step: its temp file is
\* there and its object path is absent
Wit_C3 ==
  \E c \in Calls :
    /\ ~alive[c] /\ pc[c] = "transfer"
    /\ TmpName(c) \in DOMAIN tmp
    /\ ShardedPath(filehash[c]) \notin DOMAIN objects

\* C4: when the source is rewritten between the copy and the hash, the bytes
\* stored at the object path still match the hash of the path and of the
\* result.
Cex_C4 ==
  \A c \in Calls :
    pc[c] = "done" =>
      \E bytes \in Contents :
        /\ FileHash(bytes) = result[c][1]
        /\ ShardedPath(result[c][1]) \in DOMAIN objects
        /\ objects[ShardedPath(result[c][1])] = StoredForm(bytes)

\* C5: two writeObject calls on identical bytes, under every interleaving of
\* their steps, both go through without error, return the same hash, and
\* the store ends with exactly one blob at that hash, holding the source.
Thm_C5 ==
  \A c, d \in Calls :
    (c # d /\ pc[c] # "idle" /\ pc[d] # "idle" /\ src[c] = src[d]) =>
      /\ pc[c] # "failed" /\ pc[d] # "failed"
      /\ (pc[c] = "done" /\ pc[d] = "done") =>
           /\ result[c] = result[d]
           /\ result[c] = <<FileHash(src[c])>>
           /\ BlobsOf(result[c][1]) = {ShardedPath(result[c][1])}
           /\ objects[ShardedPath(result[c][1])] = StoredForm(src[c])

\* both calls saw the destination absent and both did the transfer
Wit_C5 ==
  \E c, d \in Calls :
    /\ c # d /\ pc[c] = "done" /\ pc[d] = "done"
    /\ src[c] = src[d] /\ ~exists[c] /\ ~exists[d]

Rank(step) ==
  CASE step = "copy" -> 1
    [] step = "hash" -> 2
    [] step = "exists" -> 3
    [] step \in {"remove", "zip", "move"} -> 4
    [] step = "sidecar" -> 5
    [] step = "return" -> 6

\* C6: within one writeObject call the steps complete in the order copy,
\* hash, existence check, move/compress, sidecar write, and the result is
\* returned only after the last of them.
Thm_C6 ==
  \A c \in Calls :
    LET t == steps[c]
    IN /\ \A i \in 1..Len(t) : i <= 4 => Rank(t[i]) = i
       /\ \A i \in 1..Len(t) : i > 4 => Rank(t[i]) > 4
       /\ \A i \in 1..(Len(t) - 1) : Rank(t[i]) < Rank(t[i + 1])
       /\ result[c] # <<>> =>
            /\ Len(t) >= 5 /\ t[Len(t)] = "return"
            /\ hashBlocks[c] # <<>> => (Len(t) = 6 /\ t[5] = "sidecar")
       /\ (Len(t) >= 1) = (pc[c] \notin {"idle", "ensureDir", "copy"})
       /\ (Len(t) >= 4) = (pc[c] \in {"sidecar", "return", "done"})

\* a call that returned after all six steps
Wit_C6 ==
  \E c \in Calls :
    /\ pc[c] = "done" /\ result[c] # <<>>
    /\ steps[c] = <<"copy", "hash", "exists", "move", "sidecar", "return">>

\* C7: when writeObject finds the object at the destination it discards its
\* temp copy and writes nothing else: no object file and no sidecar file is
\* changed or created.
Cex_C7 ==
  [][\A c \in Calls :
       (exists[c] /\ pc[c] \in {"transfer", "sidecar", "return"} /\ pc'[c] # pc[c]) =>
         /\ objects' = objects
         /\ hblocks' = hblocks]_vars

\* C8: readObject on a hash with no file at the sharded path fails with
\* not found, does not invoke the copy primitive and leaves dst untouched.
Thm_C8 ==
  [][/\ readResult' = "not found" => ~readCopied'
     /\ (rpc = "exists" /\ rpc' # rpc /\ ShardedPath(rhash) \notin DOMAIN objects) =>
          /\ rpc' = "idle"
          /\ readResult' = "not found"
          /\ ~readCopied'
          /\ worktree' = worktree]_vars

\* a read of a missing hash that failed, on a store that holds another
\* object, with no file at dst
Wit_C8 ==
  /\ rpc = "idle" /\ readResult = "not found"
  /\ objects # Empty
  /\ ShardedPath(rhash) \notin DOMAIN objects
  /\ rdst \notin DOMAIN worktree

Cex_C10 ==
  /\ openResult = "ok" => JSONparse(configFile[1]).version >= MinVersion
  /\ odb # <<>> => odb[1].version >= MinVersion

\* C11: after a successful create on a fresh target the metadata root holds
\* the directories objects, versions, hooks and refs and a config record,
\* and a following open succeeds with the configuration
\* {version: 2, filemode: false, symlinks: true} loaded.
Thm_C11 ==
  [][/\ createResult' = "ok" =>
          /\ commondir'
          /\ {"objects", "versions", "hooks", "refs"} \subseteq dirs'
          /\ configFile' # <<>>
     /\ (createResult = "ok" /\ openResult' # openResult) =>
          /\ openResult' = "ok"
          /\ odb' = <<[version |-> 2, filemode |-> FALSE, symlinks |-> TRUE]>>]_vars

\* an open that followed a successful create
Wit_C11 ==
  /\ createResult = "ok" /\ openResult = "ok"
  /\ odb = <<[version |-> 2, filemode |-> FALSE, symlinks |-> TRUE]>>
  /\ {"objects", "versions", "hooks", "refs"} \subseteq dirs

\* read is the node read back for the node orig of a written tree: a
\* directory exactly when orig is one, the same name, for a file the same
\* hash, the given parent, and the same children in the same order, each
\* with this node as its parent
RECURSIVE SameShape(_, _, _, _)
SameShape(read, orig, parent, place) ==
  /\ read.kind = orig.kind
  /\ read.name = JStr(orig.name)
  /\ orig.kind = "file" => read.hash = JStr(orig.hash)
  /\ read.parent = parent
  /\ Len(read.children) = Len(orig.children)
  /\ \A i \in 1..Len(orig.children) :
       SameShape(read.children[i], orig.children[i], <<place>>, place \o <<i>>)

\* the commit read back from the file named h, <<>> when there is none
ReadBack(commitsRead, h) ==
  LET found == SelectSeq(commitsRead, LAMBDA c : c.hash = JStr(h))
  IN IF Len(found) = 1 THEN found ELSE <<>>

\* C12: readCommits after writeCommit returns, for every commit written, a
\* commit of the same hash whose tree has the shape of the original: the
\* same directories and files, children in the same order, equal file
\* hashes, every child's parent the directory holding it, the root's parent
\* null.
Cex_C12 ==
  [][ccall'.op = "readCommits" =>
       \A h \in DOMAIN commitsWritten :
         /\ ReadBack(ccall'.commitsRead, h) # <<>>
         /\ SameShape(ReadBack(ccall'.commitsRead, h)[1].root,
                      commitsWritten[h].root, <<>>, <<>>)]_vars

\* C14: a commit written with an empty tag list or without tags is read
\* back without a tags field.
Cex_C14 ==
  [][ccall'.op = "readCommits" =>
       \A h \in DOMAIN commitsWritten :
         commitsWritten[h].tags \in {JUndefined, JArr(<<>>)} =>
           \A i \in 1..Len(ccall'.commitsRead) :
             ccall'.commitsRead[i].hash = JStr(h) =>
               ccall'.commitsRead[i].tags = JUndefined]_vars

\* C15: a commit written with a userData map and a list of tags is read
\* back with the same keys and values in userData and the same tags in the
\* same order.
Cex_C15 ==
  [][ccall'.op = "readCommits" =>
       \A h \in DOMAIN commitsWritten :
         (commitsWritten[h].userData # JUndefined /\ commitsWritten[h].tags # JUndefined) =>
           /\ ReadBack(ccall'.commitsRead, h) # <<>>
           /\ ReadBack(ccall'.commitsRead, h)[1].userData = commitsWritten[h].userData
           /\ ReadBack(ccall'.commitsRead, h)[1].tags = commitsWritten[h].tags]_vars

\* C13: readReferences after writeReference of a non-detached reference with
\* a target hash returns exactly one Reference of that name, with the hash,
\* start and userData that were written; an absent userData reads back as
\* the empty map.
Thm_C13 ==
  [][call'.op = "readReferences" =>
       /\ call'.out = "ok"
       /\ \A n \in DOMAIN refsWritten :
            \E i \in 1..Len(call'.refsRead) :
              /\ \A j \in 1..Len(call'.refsRead) :
                   call'.refsRead[j].refName = n <=> j = i
              /\ call'.refsRead[i].hash = refsWritten[n].hash
              /\ call'.refsRead[i].start = refsWritten[n].start
              /\ call'.refsRead[i].userData =
                   IF refsWritten[n].userData = JUndefined
                     THEN JObj(<<>>, <<>>)
                     ELSE refsWritten[n].userData]_vars

Wit_C13 ==
  /\ call.op = "readReferences"
  /\ Len(call.refsRead) = 2
  /\ \E i, j \in 1..2 :
       /\ refsWritten[call.refsRead[i].refName].userData = JUndefined
       /\ call.refsRead[i].userData = JObj(<<>>, <<>>)
       /\ call.refsRead[j].userData = SampleUserData
       /\ call.refsRead[j].start = JStr(<<"c2">>)
       /\ call.refsRead[j].hash = JStr(<<"c1">>)

\* C16: writeReference on a reference named HEAD returns without throwing,
\* with or without a target hash, and leaves the files under refs/ and the
\* HEAD file as they were.
Thm_C16 ==
  [][(call'.op = "writeReference" /\ call'.ref.refName = "HEAD") =>
       /\ call'.out = "warned"
       /\ refs' = refs
       /\ headFile' = headFile]_vars

Wit_C16 ==
  /\ call.op = "writeReference"
  /\ call.ref.refName = "HEAD"
  /\ call.ref.hash = JUndefined
  /\ call.out = "warned"
  /\ DOMAIN refs # {}

\* C17: writeReference on a reference not named HEAD whose hash is
\* undefined, null or the empty string throws the missing-hash error and
\* leaves every file under refs/ as it was.
Thm_C17 ==
  [][(/\ call'.op = "writeReference"
      /\ call'.ref.refName # "HEAD"
      /\ call'.ref.hash \in {JUndefined, JNull, JStr(<<>>)}) =>
       /\ call'.out = "hash value of ref is undefined"
       /\ refs' = refs]_vars

Wit_C17 ==
  /\ call.op = "writeReference"
  /\ call.ref.hash = JStr(<<>>)
  /\ call.out = "hash value of ref is undefined"
  /\ call.ref.refName \in DOMAIN refs

\* what writeHeadReference is to leave in HEAD for a reference that has the
\* value asked for
HeadText(head) == IF head.refName = "HEAD" THEN head.hash.s ELSE <<head.refName>>

HasHeadText(head) == head.refName = "HEAD" => head.hash.t = "string"

\* C18: writeHeadReference writes the hash of a reference named HEAD, and
\* the name of any other reference, to the file HEAD and touches nothing
\* under refs/; readHeadReference right after it returns that very value.
Thm_C18 ==
  [][/\ (call'.op = "writeHeadReference" /\ HasHeadText(call'.ref)) =>
          /\ call'.out = "ok"
          /\ headFile' = <<HeadText(call'.ref)>>
          /\ refs' = refs
     /\ (/\ call.op = "writeHeadReference" /\ HasHeadText(call.ref)
         /\ call'.op = "readHeadReference") =>
          /\ call'.out = "ok"
          /\ call'.headRead = <<JStr(HeadText(call.ref))>>]_vars

Wit_C18 ==
  /\ call.op = "readHeadReference"
  /\ call.headRead = <<JStr(<<"c1">>)>>
  /\ headFile = <<<<"c1">>>>
  /\ DOMAIN refs # {}

\* text.trim()
RECURSIVE TrimStart(_)
TrimStart(text) ==
  IF text # <<>> /\ text[1] \in {Newline, " "} THEN TrimStart(Tail(text)) ELSE text

RECURSIVE TrimEnd(_)
TrimEnd(text) ==
  IF text # <<>> /\ text[Len(text)] \in {Newline, " "}
    THEN TrimEnd(SubSeq(text, 1, Len(text) - 1))
    ELSE text

Trim(text) == TrimEnd(TrimStart(text))

\* C19: readHeadReference returns the text of HEAD without leading and
\* trailing white space.
Cex_C19 ==
  [][(call'.op = "readHeadReference" /\ headFile # <<>>) =>
       call'.headRead = <<JStr(Trim(headFile[1]))>>]_vars

\* C20: readHeadReference without a HEAD file ends without error, returns
\* undefined and creates no HEAD file.
Thm_C20 ==
  [][(call'.op = "readHeadReference" /\ headFile = <<>>) =>
       /\ call'.out = "ok"
       /\ call'.headRead = <<JUndefined>>
       /\ headFile' = <<>>]_vars

Wit_C20 ==
  /\ call.op = "readHeadReference"
  /\ call.out = "ok"
  /\ call.headRead = <<JUndefined>>
  /\ headFile = <<>>
  /\ createResult = "ok"

\* C21: with files under refs/ that do not parse next to files that do,
\* readReferences ends without error and returns one Reference for each
\* file that parses, named as the file, and none for the others.
Thm_C21 ==
  [][call'.op = "readReferences" =>
       /\ call'.out = "ok"
       /\ Len(call'.refsRead) = Cardinality(DOMAIN refsWritten)
       /\ \A n \in DOMAIN refsWritten :
            \E i \in 1..Len(call'.refsRead) : call'.refsRead[i].refName = n
       /\ \A n \in DOMAIN refs \ DOMAIN refsWritten :
            \A i \in 1..Len(call'.refsRead) : call'.refsRead[i].refName # n]_vars

Wit_C21 ==
  /\ call.op = "readReferences"
  /\ call.out = "ok"
  /\ Len(call.refsRead) = 1
  /\ \E n \in DOMAIN refs \ DOMAIN refsWritten : refs[n] # <<>>
  /\ \E n \in DOMAIN refsWritten : call.refsRead[1].refName = n

\* C22: deleteHeadReference removes the file refs/<name> and nothing else,
\* neither another file under refs/ nor HEAD; without such a file it fails
\* with the not-found error and changes nothing; readReferences right
\* after a delete that succeeded returns no reference of that name.
Thm_C22 ==
  [][/\ call'.op = "deleteHeadReference" =>
          /\ headFile' = headFile
          /\ IF call'.ref.refName \in DOMAIN refs
               THEN /\ call'.out = "ok"
                    /\ DOMAIN refs' = DOMAIN refs \ {call'.ref.refName}
                    /\ \A n \in DOMAIN refs' : refs'[n] = refs[n]
               ELSE /\ call'.out = "ENOENT"
                    /\ refs' = refs
     /\ (/\ call.op = "deleteHeadReference" /\ call.out = "ok"
         /\ call'.op = "readReferences") =>
          \A i \in 1..Len(call'.refsRead) :
            call'.refsRead[i].refName # call.ref.refName]_vars

Wit_C22 ==
  /\ call.op = "deleteHeadReference"
  /\ call.out = "ok"
  /\ call.ref.refName \notin DOMAIN refs
  /\ DOMAIN refs # {}
  /\ headFile # <<>>

\* the parent hashes as readCommits is to return them
ParentArray(commit) == JArr([i \in 1..Len(commit.parent) |-> JStr(commit.parent[i])])

\* C23: a commit read back by readCommits has the parent hashes it was
\* written with, in order: none, one, or several.
Cex_C23 ==
  [][(ccall'.op = "readCommits" /\ ccall'.out = "ok") =>
       \A h \in DOMAIN commitsWritten :
         /\ ReadBack(ccall'.commitsRead, h) # <<>>
         /\ ReadBack(ccall'.commitsRead, h)[1].parent = ParentArray(commitsWritten[h])]_vars

\* no tag of the commit holds a double quote
PlainTags(commit) ==
  commit.tags.t = "array" =>
    \A i \in 1..Len(commit.tags.a) :
      \A k \in 1..Len(commit.tags.a[i].s) : commit.tags.a[i].s[k] # Quote

\* C24: whatever the message, a double quote, a backslash or a newline in
\* it included, readCommits parses the file writeCommit wrote and returns
\* the commit with the same message, together with the other commits of
\* the store.
Cex_C24 ==
  [][(/\ ccall'.op = "readCommits"
      /\ \A h \in DOMAIN commitsWritten : PlainTags(commitsWritten[h])) =>
       /\ ccall'.out = "ok"
       /\ \A h \in DOMAIN commitsWritten :
            /\ ReadBack(ccall'.commitsRead, h) # <<>>
            /\ ReadBack(ccall'.commitsRead, h)[1].message
                 = JStr(commitsWritten[h].message)]_vars

\* the lines of the sidecar for the blocks, in block order
SidecarLines(blocks) ==
  [i \in 1..Len(blocks) |-> <<blocks[i].start, ";", blocks[i].end, ";", blocks[i].hash, ";">>]

\* C25: the sidecar step of writeObject writes <object path>.hblock, with
\* one line start;end;hash; per block in block order, when the hasher
\* produced at least one block, and creates no sidecar when it produced
\* none, be it an absent value or an empty list.
Cex_C25 ==
  [][\A c \in Calls :
       (pc[c] = "sidecar" /\ pc'[c] = "return") =>
         IF hashBlocks[c] # <<>> /\ hashBlocks[c][1] # <<>>
           THEN hblocks' = Put(hblocks, ShardedPath(filehash[c]),
                               SidecarLines(hashBlocks[c][1]))
           ELSE hblocks' = hblocks]_vars

\* C26: the temp file of a writeObject call that completed is gone,
\* whichever path the call took and however it interleaved with the other
\* calls; a temp file under tmp/ belongs to a call that is still between
\* its copy and its transfer, that failed, or that was interrupted.
Thm_C26 ==
  /\ \A c \in Calls : (alive[c] /\ pc[c] = "done") => c \notin DOMAIN tmp
  /\ \A n \in DOMAIN tmp :
       /\ n \in Calls
       /\ ~alive[n] \/ pc[n] \in {"hash", "exists", "transfer", "failed"}

Wit_C26 ==
  \E c, d \in Calls :
    /\ alive[c] /\ pc[c] = "done"
    /\ c \notin DOMAIN tmp
    /\ ~alive[d] /\ d \in DOMAIN tmp

====
